---- MODULE Spec2Model ----
(***************************************************************************)
(* GD32W51x peripheral drivers: GPIO (gd32w51x_gpio.c) and EXTI            *)
(* (gd32w51x_exti.c), modelled as operations on the memory-mapped          *)
(* register file.                                                          *)
(*                                                                         *)
(* A 32-bit word (uint32_t) is the set of the bit positions 0..31 that     *)
(* hold 1: & is intersection, | is union, ~ is the complement in 0..31,    *)
(* and << drops what is shifted past bit 31.                               *)
(***************************************************************************)
EXTENDS Integers, Sequences, FiniteSets

VARIABLES gpio, exti, hist, calls, run

vars == <<gpio, exti, hist, calls, run>>

(* ------------------------------ bounds -------------------------------- *)

\* number of steps (driver calls and line edges) in one behaviour
MaxSteps == 2

(* --------------------------- 32-bit words ----------------------------- *)

Word32 == 0..31

\* the word that holds the number n (0 <= n < 2^31)
Bits(n) == {i \in 0..30 : (n \div (2^i)) % 2 = 1}

AND(a, b) == a \cap b
OR(a, b) == a \cup b
NOT(a) == Word32 \ a
SHL(a, n) == {i + n : i \in {j \in a : j + n <= 31}}

\* the w-bit field number i of a packed register, as a word
Field(reg, i, w) == {b - w * i : b \in reg \cap ((w * i)..(w * i + w - 1))}

(* ------------------------- header definitions ------------------------- *)

\* the words 0x1, 0x3 and 0xF are {0}, {0, 1} and {0, 1, 2, 3}
BIT(x) == SHL({0}, x)

GPIO_MODE_MASK(n) == SHL({0, 1}, 2 * n)
GPIO_MODE_SET(n, mode) == SHL(mode, 2 * n)
GPIO_PUPD_MASK(n) == SHL({0, 1}, 2 * n)
GPIO_PUPD_SET(n, pupd) == SHL(pupd, 2 * n)
GPIO_OSPEED_MASK(n) == SHL({0, 1}, 2 * n)
GPIO_OSPEED_SET(n, speed) == SHL(speed, 2 * n)
GPIO_AFR_MASK(n) == SHL({0, 1, 2, 3}, 4 * n)
GPIO_AFR_SET(n, af) == SHL(af, 4 * n)

EXTI_LOCK_LOCK == BIT(0)

\* exti_line_enum: EXTI_x is the mask of line x
EXTI_(x) == BIT(x)

(* ----------------------------- constants ------------------------------ *)

EXTI_INTEN_RESET_VAL == 261357568
EXTI_REG_RESET_VAL == 0

Ports == {"GPIOA", "GPIOB", "GPIOC"}

\* a port identifier that is none of GPIOA, GPIOB, GPIOC
GPIO_UNKNOWN == "GPIO_UNKNOWN"

RCU_RST(port) ==
    CASE port = "GPIOA" -> "RCU_GPIOARST"
      [] port = "GPIOB" -> "RCU_GPIOBRST"
      [] port = "GPIOC" -> "RCU_GPIOCRST"

(* ------------------------------- inputs ------------------------------- *)

\* the ports the configuration calls are made on
CfgPorts == {"GPIOA", "GPIOB"}

\* pin selectors: none, GPIO_PIN_0|GPIO_PIN_1 (0x0003), GPIO_PIN_ALL (0xFFFF)
PinSels == {0, 3, 65535}

\* pin selectors of gpio_af_set: also GPIO_PIN_8|GPIO_PIN_15 (0x8100)
AfPinSels == PinSels \cup {33024}

\* (mode, pull_up_down) arguments of gpio_mode_set
ModeArgs == {<<0, 0>>, <<1, 1>>, <<2, 2>>, <<3, 0>>}

\* EXTI lines, by number: EXTI_0 (clear in the reset value of INTEN) and
\* EXTI_18 (set in it)
Lines == {0, 18}

\* mode arguments of exti_init, the last none of the enumeration
ExtiModes == {"EXTI_INTERRUPT", "EXTI_EVENT", "EXTI_MODE_OTHER"}

\* trig_type arguments of exti_init, the last none of the enumeration
ExtiTrigs == {"EXTI_TRIG_RISING", "EXTI_TRIG_FALLING", "EXTI_TRIG_BOTH",
              "EXTI_TRIG_NONE", "EXTI_TRIG_OTHER"}

\* (otype, speed) arguments of gpio_output_options_set
OtypeArgs == {<<"GPIO_OTYPE_PP", 0>>, <<"GPIO_OTYPE_OD", 1>>,
              <<"GPIO_OTYPE_OD", 2>>, <<"OTYPE_OTHER", 3>>}

\* alt_func_num arguments of gpio_af_set
AfArgs == {0, 5, 10, 15}

(* --------------------------- register file ---------------------------- *)

GpioRegs == {"CTL", "OMODE", "OSPD", "PUD", "ISTAT", "OCTL", "LOCK",
             "AFSEL0", "AFSEL1", "SCFG"}

ExtiRegs == {"INTEN", "EVEN", "RTEN", "FTEN", "SWIEV", "PD", "SECCFG",
             "PRIVCFG", "LOCK"}

\* one call of the driver: the function, its arguments, what it returned,
\* the register accesses or collaborator calls it is recorded with, and the
\* register file as it was when the call began
Entry(op, args, ret, trace) ==
    [op |-> op, args |-> args, ret |-> ret, trace |-> trace,
     gpio |-> gpio, exti |-> exti]

\* hist[1] is the latest call, hist[2] the one before it
Push(e) == IF hist = <<>> THEN <<e>> ELSE <<e, hist[1]>>

\* the call of gpio_mode_set that thread mode is in: the line it is to execute
\* next, its arguments, its locals ctl and pupd, the register file as it was
\* when the call began, and the lines at which a handler preempted it
Idle ==
    [pc |-> "idle", args |-> <<>>, ctl |-> {}, pupd |-> {},
     gpio |-> <<>>, exti |-> <<>>, trace |-> <<>>]

\* the EXTI registers hold their reset values, the GPIO registers are clear;
\* no call is in progress
Init ==
    /\ gpio = [p \in Ports |-> [r \in GpioRegs |-> {}]]
    /\ exti = [r \in ExtiRegs |->
                 IF r = "INTEN" THEN Bits(EXTI_INTEN_RESET_VAL)
                                ELSE Bits(EXTI_REG_RESET_VAL)]
    /\ hist = <<>>
    /\ calls = 0
    /\ run = Idle

(* ------------------------------- GPIO --------------------------------- *)

\* gpio_mode_loop with the loop ended one index early (i < 15U)
RECURSIVE gpio_mode_loop_short(_, _, _, _, _)
gpio_mode_loop_short(i, acc, mode, pull_up_down, pin) ==
    IF i >= 15 THEN acc
    ELSE gpio_mode_loop_short(i + 1,
            IF AND(BIT(i), pin) # {}
            THEN [ctl |-> OR(AND(acc.ctl, NOT(GPIO_MODE_MASK(i))),
                             GPIO_MODE_SET(i, mode)),
                  pupd |-> OR(AND(acc.pupd, NOT(GPIO_PUPD_MASK(i))),
                              GPIO_PUPD_SET(i, pull_up_down))]
            ELSE acc,
            mode, pull_up_down, pin)

\* the loop of gpio_mode_set from index i on; acc holds ctl and pupd
RECURSIVE gpio_mode_loop(_, _, _, _, _)
gpio_mode_loop(i, acc, mode, pull_up_down, pin) ==
    IF i >= 16 THEN acc
    ELSE gpio_mode_loop(i + 1,
            IF AND(BIT(i), pin) # {}
            THEN [ctl |-> OR(AND(acc.ctl, NOT(GPIO_MODE_MASK(i))),
                             GPIO_MODE_SET(i, mode)),
                  pupd |-> OR(AND(acc.pupd, NOT(GPIO_PUPD_MASK(i))),
                              GPIO_PUPD_SET(i, pull_up_down))]
            ELSE acc,
            mode, pull_up_down, pin)

\* gpio_mode_regs storing the pull-up/down fields to GPIO_OSPD
gpio_mode_regs_ospd(regs, mode, pull_up_down, pin) ==
    LET out == gpio_mode_loop(0, [ctl |-> regs.CTL, pupd |-> regs.PUD],
                              mode, pull_up_down, pin)
    IN  [regs EXCEPT !.CTL = out.ctl, !.OSPD = out.pupd]

\* the registers of a port after gpio_mode_set, from the registers before
gpio_mode_regs(regs, mode, pull_up_down, pin) ==
    LET out == gpio_mode_loop(0, [ctl |-> regs.CTL, pupd |-> regs.PUD],
                              mode, pull_up_down, pin)
    IN  [regs EXCEPT !.CTL = out.ctl, !.PUD = out.pupd]

gpio_mode_set ==
    \E gpio_periph \in CfgPorts, m \in ModeArgs, pin \in PinSels :
        /\ calls < MaxSteps
        /\ gpio' = [gpio EXCEPT ![gpio_periph] =
                      gpio_mode_regs(gpio[gpio_periph], Bits(m[1]), Bits(m[2]),
                                     Bits(pin))]
        /\ hist' = Push(Entry("gpio_mode_set", <<gpio_periph, m[1], m[2], pin>>,
                              "void", <<>>))
        /\ calls' = calls + 1
        /\ UNCHANGED <<exti, run>>

\* gpio_ospeed_loop without the clearing of the pin's speed bits
RECURSIVE gpio_ospeed_loop_noclear(_, _, _, _)
gpio_ospeed_loop_noclear(i, ospeed, speed, pin) ==
    IF i >= 16 THEN ospeed
    ELSE gpio_ospeed_loop_noclear(i + 1,
            IF AND(BIT(i), pin) # {}
            THEN OR(ospeed, GPIO_OSPEED_SET(i, speed))
            ELSE ospeed,
            speed, pin)

\* the loop of gpio_output_options_set from index i on
RECURSIVE gpio_ospeed_loop(_, _, _, _)
gpio_ospeed_loop(i, ospeed, speed, pin) ==
    IF i >= 16 THEN ospeed
    ELSE gpio_ospeed_loop(i + 1,
            IF AND(BIT(i), pin) # {}
            THEN OR(AND(ospeed, NOT(GPIO_OSPEED_MASK(i))),
                    GPIO_OSPEED_SET(i, speed))
            ELSE ospeed,
            speed, pin)

\* gpio_output_options_regs with OMODE ^= pin for GPIO_OTYPE_OD
gpio_output_options_regs_toggle(regs, otype, speed, pin) ==
    [regs EXCEPT
       !.OMODE = IF "GPIO_OTYPE_OD" = otype
                 THEN (regs.OMODE \ pin) \cup (pin \ regs.OMODE)
                 ELSE AND(regs.OMODE, NOT(pin)),
       !.OSPD = gpio_ospeed_loop(0, regs.OSPD, speed, pin)]

\* gpio_output_options_regs with OMODE &= pin (the ~ forgotten)
gpio_output_options_regs_and(regs, otype, speed, pin) ==
    [regs EXCEPT
       !.OMODE = IF "GPIO_OTYPE_OD" = otype THEN OR(regs.OMODE, pin)
                                            ELSE AND(regs.OMODE, pin),
       !.OSPD = gpio_ospeed_loop(0, regs.OSPD, speed, pin)]

\* the registers of a port after gpio_output_options_set
gpio_output_options_regs(regs, otype, speed, pin) ==
    [regs EXCEPT
       !.OMODE = IF "GPIO_OTYPE_OD" = otype THEN OR(regs.OMODE, pin)
                                            ELSE AND(regs.OMODE, NOT(pin)),
       !.OSPD = gpio_ospeed_loop(0, regs.OSPD, speed, pin)]

gpio_output_options_set ==
    \E gpio_periph \in CfgPorts, o \in OtypeArgs, pin \in PinSels :
        /\ calls < MaxSteps
        /\ gpio' = [gpio EXCEPT ![gpio_periph] =
                      gpio_output_options_regs(gpio[gpio_periph], o[1],
                                               Bits(o[2]), Bits(pin))]
        /\ hist' = Push(Entry("gpio_output_options_set",
                              <<gpio_periph, o[1], o[2], pin>>, "void", <<>>))
        /\ calls' = calls + 1
        /\ UNCHANGED <<exti, run>>

\* gpio_af_loop with the field index not shifted (i for i - 8U)
RECURSIVE gpio_af_loop_noshift(_, _, _, _, _, _)
gpio_af_loop_noshift(i, hi, base, afr, alt_func_num, pin) ==
    IF i >= hi THEN afr
    ELSE gpio_af_loop_noshift(i + 1, hi, base,
            IF AND(BIT(i), pin) # {}
            THEN OR(AND(afr, NOT(GPIO_AFR_MASK(i))),
                    GPIO_AFR_SET(i, alt_func_num))
            ELSE afr,
            alt_func_num, pin)

\* one loop of gpio_af_set: indices i..hi-1 of pin, fields i-base.. of afr
RECURSIVE gpio_af_loop(_, _, _, _, _, _)
gpio_af_loop(i, hi, base, afr, alt_func_num, pin) ==
    IF i >= hi THEN afr
    ELSE gpio_af_loop(i + 1, hi, base,
            IF AND(BIT(i), pin) # {}
            THEN OR(AND(afr, NOT(GPIO_AFR_MASK(i - base))),
                    GPIO_AFR_SET(i - base, alt_func_num))
            ELSE afr,
            alt_func_num, pin)

\* the registers of a port after gpio_af_set
gpio_af_regs(regs, alt_func_num, pin) ==
    [regs EXCEPT
       !.AFSEL0 = gpio_af_loop(0, 8, 0, regs.AFSEL0, alt_func_num, pin),
       !.AFSEL1 = gpio_af_loop(8, 16, 8, regs.AFSEL1, alt_func_num, pin)]

gpio_af_set ==
    \E gpio_periph \in CfgPorts, af \in AfArgs, pin \in AfPinSels :
        /\ calls < MaxSteps
        /\ gpio' = [gpio EXCEPT ![gpio_periph] =
                      gpio_af_regs(gpio[gpio_periph], Bits(af), Bits(pin))]
        /\ hist' = Push(Entry("gpio_af_set", <<gpio_periph, af, pin>>,
                              "void", <<>>))
        /\ calls' = calls + 1
        /\ UNCHANGED <<exti, run>>

\* one access to a register of a port: a write of val, or a read
Access(rw, port, reg, val) == [rw |-> rw, port |-> port, reg |-> reg, val |-> val]

\* gpio_pin_lock_trace with the second write carrying the lock key too
gpio_pin_lock_trace_key(gpio_periph, pin) ==
    LET lock == OR(Bits(65536), pin)
    IN  << Access("write", gpio_periph, "LOCK", lock),
           Access("write", gpio_periph, "LOCK", lock),
           Access("write", gpio_periph, "LOCK", lock),
           Access("read", gpio_periph, "LOCK", {}),
           Access("read", gpio_periph, "LOCK", {}) >>

\* the accesses of gpio_pin_lock, in program order
gpio_pin_lock_trace(gpio_periph, pin) ==
    LET lock == OR(Bits(65536), pin)
    IN  << Access("write", gpio_periph, "LOCK", lock),
           Access("write", gpio_periph, "LOCK", pin),
           Access("write", gpio_periph, "LOCK", lock),
           Access("read", gpio_periph, "LOCK", {}),
           Access("read", gpio_periph, "LOCK", {}) >>

\* a register file after the accesses of a trace, in order
RECURSIVE Perform(_, _)
Perform(g, trace) ==
    IF trace = <<>> THEN g
    ELSE Perform(IF Head(trace).rw = "write"
                 THEN [g EXCEPT ![Head(trace).port][Head(trace).reg] =
                                   Head(trace).val]
                 ELSE g,
                 Tail(trace))

gpio_pin_lock ==
    \E gpio_periph \in CfgPorts, pin \in PinSels :
        /\ calls < MaxSteps
        /\ gpio' = Perform(gpio, gpio_pin_lock_trace(gpio_periph, Bits(pin)))
        /\ hist' = Push(Entry("gpio_pin_lock", <<gpio_periph, pin>>, "void",
                              gpio_pin_lock_trace(gpio_periph, Bits(pin))))
        /\ calls' = calls + 1
        /\ UNCHANGED <<exti, run>>

\* gpio_deinit_trace with the GPIOC arm a copy of the GPIOB arm
gpio_deinit_trace_copy(gpio_periph) ==
    IF gpio_periph \in {"GPIOA", "GPIOB", "GPIOC"}
    THEN LET rst == IF gpio_periph = "GPIOC" THEN "RCU_GPIOBRST"
                                            ELSE RCU_RST(gpio_periph)
         IN  << <<"rcu_periph_reset_enable", rst>>,
                <<"rcu_periph_reset_disable", rst>> >>
    ELSE <<>>

\* the calls gpio_deinit makes to the reset control unit, in program order
gpio_deinit_trace(gpio_periph) ==
    IF gpio_periph \in {"GPIOA", "GPIOB", "GPIOC"}
    THEN << <<"rcu_periph_reset_enable", RCU_RST(gpio_periph)>>,
            <<"rcu_periph_reset_disable", RCU_RST(gpio_periph)>> >>
    ELSE <<>>

gpio_deinit ==
    \E gpio_periph \in Ports \cup {GPIO_UNKNOWN} :
        /\ calls < MaxSteps
        /\ hist' = Push(Entry("gpio_deinit", <<gpio_periph>>, "void",
                              gpio_deinit_trace(gpio_periph)))
        /\ calls' = calls + 1
        /\ UNCHANGED <<gpio, exti, run>>

gpio_bit_set_sec_cfg_reg(scfg, pin) == OR(scfg, pin)

gpio_bit_set_sec_cfg ==
    \E gpio_periph \in CfgPorts, pin \in PinSels :
        /\ calls < MaxSteps
        /\ gpio' = [gpio EXCEPT ![gpio_periph].SCFG =
                      gpio_bit_set_sec_cfg_reg(gpio[gpio_periph].SCFG, Bits(pin))]
        /\ hist' = Push(Entry("gpio_bit_set_sec_cfg", <<gpio_periph, pin>>,
                              "void", <<>>))
        /\ calls' = calls + 1
        /\ UNCHANGED <<exti, run>>

gpio_bit_reset_sec_cfg_reg(scfg, pin) == AND(scfg, NOT(pin))

gpio_bit_reset_sec_cfg ==
    \E gpio_periph \in CfgPorts, pin \in PinSels :
        /\ calls < MaxSteps
        /\ gpio' = [gpio EXCEPT ![gpio_periph].SCFG =
                      gpio_bit_reset_sec_cfg_reg(gpio[gpio_periph].SCFG, Bits(pin))]
        /\ hist' = Push(Entry("gpio_bit_reset_sec_cfg", <<gpio_periph, pin>>,
                              "void", <<>>))
        /\ calls' = calls + 1
        /\ UNCHANGED <<exti, run>>

\* the pin selector the bit reads are called with: GPIO_PIN_0
ReadPins == {1}

\* a read of a port: the registers are left alone and the call is recorded
GpioRead(op, gpio_periph, pin, ret) ==
    /\ calls < MaxSteps
    /\ hist' = Push(Entry(op, <<gpio_periph, pin>>, ret, <<>>))
    /\ calls' = calls + 1
    /\ UNCHANGED <<gpio, exti, run>>

\* what gpio_input_bit_get returns for the value of GPIO_ISTAT
gpio_input_bit_get_ret(istat, pin) ==
    IF AND(istat, pin) # {} THEN "SET" ELSE "RESET"

gpio_input_bit_get ==
    \E gpio_periph \in CfgPorts, pin \in ReadPins :
        GpioRead("gpio_input_bit_get", gpio_periph, pin,
                 gpio_input_bit_get_ret(gpio[gpio_periph].ISTAT, Bits(pin)))

\* what gpio_output_bit_get returns for the value of GPIO_OCTL
gpio_output_bit_get_ret(octl, pin) ==
    IF AND(octl, pin) # {} THEN "SET" ELSE "RESET"

gpio_output_bit_get ==
    \E gpio_periph \in CfgPorts, pin \in ReadPins :
        GpioRead("gpio_output_bit_get", gpio_periph, pin,
                 gpio_output_bit_get_ret(gpio[gpio_periph].OCTL, Bits(pin)))

\* what gpio_sec_cfg_bit_get returns for the value of GPIO_SCFG
gpio_sec_cfg_bit_get_ret(scfg, pin) ==
    IF AND(scfg, pin) # {} THEN "SET" ELSE "RESET"

gpio_sec_cfg_bit_get ==
    \E gpio_periph \in CfgPorts, pin \in ReadPins :
        GpioRead("gpio_sec_cfg_bit_get", gpio_periph, pin,
                 gpio_sec_cfg_bit_get_ret(gpio[gpio_periph].SCFG, Bits(pin)))

\* the functions that configure the pins of a port
NextGpio ==
    \/ gpio_mode_set
    \/ gpio_output_options_set
    \/ gpio_af_set
    \/ gpio_bit_set_sec_cfg
    \/ gpio_bit_reset_sec_cfg

SpecGpio == Init /\ [][NextGpio]_vars

\* the functions that reset a port and lock its pins
NextLock ==
    \/ gpio_deinit
    \/ gpio_pin_lock

SpecLock == Init /\ [][NextLock]_vars

(* ------------------------------- EXTI --------------------------------- *)

\* what a store of val to EXTI_PD leaves in it: a pending flag is cleared by
\* writing 1 to it, writing 0 leaves it
exti_pd_write(pd, val) == AND(pd, NOT(val))

\* a step on the EXTI registers: they become e, and the call is recorded
ExtiStep(op, args, ret, e) ==
    /\ calls < MaxSteps
    /\ exti' = e
    /\ hist' = Push(Entry(op, args, ret, <<>>))
    /\ calls' = calls + 1
    /\ UNCHANGED <<gpio, run>>

\* an edge on line x latches its pending flag (the hardware, not the driver)
exti_line_edge ==
    \E x \in Lines :
        ExtiStep("line_edge", <<x>>, "void", [exti EXCEPT !.PD = OR(@, EXTI_(x))])

exti_deinit_regs(e) ==
    [e EXCEPT !.INTEN = Bits(EXTI_INTEN_RESET_VAL),
              !.EVEN = Bits(EXTI_REG_RESET_VAL),
              !.RTEN = Bits(EXTI_REG_RESET_VAL),
              !.FTEN = Bits(EXTI_REG_RESET_VAL),
              !.SWIEV = Bits(EXTI_REG_RESET_VAL),
              !.SECCFG = Bits(EXTI_REG_RESET_VAL),
              !.PRIVCFG = Bits(EXTI_REG_RESET_VAL)]

exti_deinit == ExtiStep("exti_deinit", <<>>, "void", exti_deinit_regs(exti))

\* exti_init_regs with the default arm of the switch on mode falling into
\* the EXTI_EVENT arm
exti_init_regs_fall(e, linex, mode, trig_type) ==
    LET e0 == [e EXCEPT !.INTEN = AND(@, NOT(linex)),
                        !.EVEN = AND(@, NOT(linex)),
                        !.RTEN = AND(@, NOT(linex)),
                        !.FTEN = AND(@, NOT(linex))]
        e1 == CASE mode = "EXTI_INTERRUPT" -> [e0 EXCEPT !.INTEN = OR(@, linex)]
                [] OTHER -> [e0 EXCEPT !.EVEN = OR(@, linex)]
    IN  CASE trig_type = "EXTI_TRIG_RISING" ->
               [e1 EXCEPT !.RTEN = OR(@, linex), !.FTEN = AND(@, NOT(linex))]
          [] trig_type = "EXTI_TRIG_FALLING" ->
               [e1 EXCEPT !.RTEN = AND(@, NOT(linex)), !.FTEN = OR(@, linex)]
          [] trig_type = "EXTI_TRIG_BOTH" ->
               [e1 EXCEPT !.RTEN = OR(@, linex), !.FTEN = OR(@, linex)]
          [] OTHER -> e1

\* exti_init_regs without the reset of the line before the switches
exti_init_regs_noreset(e, linex, mode, trig_type) ==
    LET e1 == CASE mode = "EXTI_INTERRUPT" -> [e EXCEPT !.INTEN = OR(@, linex)]
                [] mode = "EXTI_EVENT" -> [e EXCEPT !.EVEN = OR(@, linex)]
                [] OTHER -> e
    IN  CASE trig_type = "EXTI_TRIG_RISING" ->
               [e1 EXCEPT !.RTEN = OR(@, linex), !.FTEN = AND(@, NOT(linex))]
          [] trig_type = "EXTI_TRIG_FALLING" ->
               [e1 EXCEPT !.RTEN = AND(@, NOT(linex)), !.FTEN = OR(@, linex)]
          [] trig_type = "EXTI_TRIG_BOTH" ->
               [e1 EXCEPT !.RTEN = OR(@, linex), !.FTEN = OR(@, linex)]
          [] OTHER -> e1

\* the EXTI registers after exti_init: the reset of the line, then the
\* switch on mode, then the switch on trig_type
exti_init_regs(e, linex, mode, trig_type) ==
    LET e0 == [e EXCEPT !.INTEN = AND(@, NOT(linex)),
                        !.EVEN = AND(@, NOT(linex)),
                        !.RTEN = AND(@, NOT(linex)),
                        !.FTEN = AND(@, NOT(linex))]
        e1 == CASE mode = "EXTI_INTERRUPT" -> [e0 EXCEPT !.INTEN = OR(@, linex)]
                [] mode = "EXTI_EVENT" -> [e0 EXCEPT !.EVEN = OR(@, linex)]
                [] OTHER -> e0
    IN  CASE trig_type = "EXTI_TRIG_RISING" ->
               [e1 EXCEPT !.RTEN = OR(@, linex), !.FTEN = AND(@, NOT(linex))]
          [] trig_type = "EXTI_TRIG_FALLING" ->
               [e1 EXCEPT !.RTEN = AND(@, NOT(linex)), !.FTEN = OR(@, linex)]
          [] trig_type = "EXTI_TRIG_BOTH" ->
               [e1 EXCEPT !.RTEN = OR(@, linex), !.FTEN = OR(@, linex)]
          [] OTHER -> e1

exti_init ==
    \E x \in Lines, mode \in ExtiModes, trig_type \in ExtiTrigs :
        ExtiStep("exti_init", <<x, mode, trig_type>>, "void",
                 exti_init_regs(exti, EXTI_(x), mode, trig_type))

\* exti_disable_reg with reg &= linex (the ~ forgotten)
exti_disable_reg_and(reg, linex) == AND(reg, linex)

\* reg |= linex and reg &= ~linex
exti_enable_reg(reg, linex) == OR(reg, linex)
exti_disable_reg(reg, linex) == AND(reg, NOT(linex))

exti_interrupt_enable ==
    \E x \in Lines :
        ExtiStep("exti_interrupt_enable", <<x>>, "void",
                 [exti EXCEPT !.INTEN = exti_enable_reg(@, EXTI_(x))])

exti_interrupt_disable ==
    \E x \in Lines :
        ExtiStep("exti_interrupt_disable", <<x>>, "void",
                 [exti EXCEPT !.INTEN = exti_disable_reg(@, EXTI_(x))])

exti_event_enable ==
    \E x \in Lines :
        ExtiStep("exti_event_enable", <<x>>, "void",
                 [exti EXCEPT !.EVEN = exti_enable_reg(@, EXTI_(x))])

exti_event_disable ==
    \E x \in Lines :
        ExtiStep("exti_event_disable", <<x>>, "void",
                 [exti EXCEPT !.EVEN = exti_disable_reg(@, EXTI_(x))])

exti_software_interrupt_enable ==
    \E x \in Lines :
        ExtiStep("exti_software_interrupt_enable", <<x>>, "void",
                 [exti EXCEPT !.SWIEV = exti_enable_reg(@, EXTI_(x))])

exti_software_interrupt_disable ==
    \E x \in Lines :
        ExtiStep("exti_software_interrupt_disable", <<x>>, "void",
                 [exti EXCEPT !.SWIEV = exti_disable_reg(@, EXTI_(x))])

exti_security_enable ==
    \E x \in Lines :
        ExtiStep("exti_security_enable", <<x>>, "void",
                 [exti EXCEPT !.SECCFG = exti_enable_reg(@, EXTI_(x))])

exti_security_disable ==
    \E x \in Lines :
        ExtiStep("exti_security_disable", <<x>>, "void",
                 [exti EXCEPT !.SECCFG = exti_disable_reg(@, EXTI_(x))])

exti_privilege_enable ==
    \E x \in Lines :
        ExtiStep("exti_privilege_enable", <<x>>, "void",
                 [exti EXCEPT !.PRIVCFG = exti_enable_reg(@, EXTI_(x))])

exti_privilege_disable ==
    \E x \in Lines :
        ExtiStep("exti_privilege_disable", <<x>>, "void",
                 [exti EXCEPT !.PRIVCFG = exti_disable_reg(@, EXTI_(x))])

exti_lock_enable ==
    ExtiStep("exti_lock_enable", <<>>, "void",
             [exti EXCEPT !.LOCK = OR(@, EXTI_LOCK_LOCK)])

\* what exti_flag_get and exti_interrupt_flag_get return
exti_flag_get_ret(pd, linex) ==
    IF AND(pd, linex) # {} THEN "SET" ELSE "RESET"

exti_flag_get ==
    \E x \in Lines :
        ExtiStep("exti_flag_get", <<x>>, exti_flag_get_ret(exti.PD, EXTI_(x)),
                 exti)

\* exti_flag_clear_reg storing ~linex, as for a flag cleared by writing 0
exti_flag_clear_reg_inv(pd, linex) == exti_pd_write(pd, NOT(linex))

\* EXTI_PD after exti_flag_clear and exti_interrupt_flag_clear store linex
exti_flag_clear_reg(pd, linex) == exti_pd_write(pd, linex)

exti_flag_clear ==
    \E x \in Lines :
        ExtiStep("exti_flag_clear", <<x>>, "void",
                 [exti EXCEPT !.PD = exti_flag_clear_reg(@, EXTI_(x))])

exti_interrupt_flag_get ==
    \E x \in Lines :
        ExtiStep("exti_interrupt_flag_get", <<x>>,
                 exti_flag_get_ret(exti.PD, EXTI_(x)), exti)

exti_interrupt_flag_clear ==
    \E x \in Lines :
        ExtiStep("exti_interrupt_flag_clear", <<x>>, "void",
                 [exti EXCEPT !.PD = exti_flag_clear_reg(@, EXTI_(x))])

NextExti ==
    \/ exti_line_edge
    \/ exti_deinit
    \/ exti_init
    \/ exti_interrupt_enable
    \/ exti_interrupt_disable
    \/ exti_event_enable
    \/ exti_event_disable
    \/ exti_software_interrupt_enable
    \/ exti_software_interrupt_disable
    \/ exti_security_enable
    \/ exti_security_disable
    \/ exti_privilege_enable
    \/ exti_privilege_disable
    \/ exti_lock_enable
    \/ exti_flag_get
    \/ exti_flag_clear
    \/ exti_interrupt_flag_get
    \/ exti_interrupt_flag_clear

SpecExti == Init /\ [][NextExti]_vars

\* the functions that configure the pins of a port and the functions that
\* read a pin or a pending flag
NextIso ==
    \/ gpio_mode_set
    \/ gpio_output_options_set
    \/ gpio_af_set
    \/ gpio_bit_set_sec_cfg
    \/ gpio_bit_reset_sec_cfg
    \/ gpio_input_bit_get
    \/ gpio_output_bit_get
    \/ gpio_sec_cfg_bit_get
    \/ exti_flag_get
    \/ exti_interrupt_flag_get

SpecIso == Init /\ [][NextIso]_vars

\* the functions that set or clear single bits of one register
NextToggle ==
    \/ exti_interrupt_enable
    \/ exti_interrupt_disable
    \/ exti_event_enable
    \/ exti_event_disable
    \/ exti_software_interrupt_enable
    \/ exti_software_interrupt_disable
    \/ exti_security_enable
    \/ exti_security_disable
    \/ exti_privilege_enable
    \/ exti_privilege_disable
    \/ gpio_bit_set_sec_cfg
    \/ gpio_bit_reset_sec_cfg

SpecToggle == Init /\ [][NextToggle]_vars

(* ---------------------------- preemption ------------------------------ *)

\* gpio_mode_set called from thread mode runs line by line, and a handler that
\* calls gpio_mode_set may run to completion between any two of its lines:
\* the driver masks no interrupt and takes no lock.

\* pin selectors of these calls: GPIO_PIN_0|GPIO_PIN_1 (0x0003),
\* GPIO_PIN_2|GPIO_PIN_3 (0x000C), GPIO_PIN_ALL (0xFFFF)
IrqPinSels == {3, 12, 65535}

\* line 95, with the call: ctl = GPIO_CTL(gpio_periph)
gpio_mode_set_95 ==
    \E gpio_periph \in CfgPorts, m \in ModeArgs, pin \in IrqPinSels :
        /\ run.pc = "idle"
        /\ calls < MaxSteps
        /\ run' = [pc |-> "L96", args |-> <<gpio_periph, m[1], m[2], pin>>,
                   ctl |-> gpio[gpio_periph].CTL, pupd |-> {},
                   gpio |-> gpio, exti |-> exti, trace |-> <<"thread">>]
        /\ calls' = calls + 1
        /\ UNCHANGED <<gpio, exti, hist>>

\* lines 96 to 110: pupd = GPIO_PUD(gpio_periph), then the loop over the pins,
\* which works on the locals only
gpio_mode_set_96 ==
    /\ run.pc = "L96"
    /\ LET out == gpio_mode_loop(0, [ctl |-> run.ctl,
                                     pupd |-> gpio[run.args[1]].PUD],
                                 Bits(run.args[2]), Bits(run.args[3]),
                                 Bits(run.args[4]))
       IN  run' = [run EXCEPT !.pc = "L112", !.ctl = out.ctl,
                              !.pupd = out.pupd]
    /\ UNCHANGED <<gpio, exti, hist, calls>>

\* gpio_mode_store_ctl storing the local pupd
gpio_mode_store_ctl_pupd(regs, l) == [regs EXCEPT !.CTL = l.pupd]

\* line 112: GPIO_CTL(gpio_periph) = ctl
gpio_mode_store_ctl(regs, l) == [regs EXCEPT !.CTL = l.ctl]

gpio_mode_set_112 ==
    /\ run.pc = "L112"
    /\ gpio' = [gpio EXCEPT ![run.args[1]] = gpio_mode_store_ctl(@, run)]
    /\ run' = [run EXCEPT !.pc = "L113"]
    /\ UNCHANGED <<exti, hist, calls>>

\* line 113: GPIO_PUD(gpio_periph) = pupd
gpio_mode_store_pud(regs, l) == [regs EXCEPT !.PUD = l.pupd]

\* line 113 and the return: the call is recorded with the register file as it
\* was when it began
gpio_mode_set_113 ==
    /\ run.pc = "L113"
    /\ gpio' = [gpio EXCEPT ![run.args[1]] = gpio_mode_store_pud(@, run)]
    /\ hist' = Push([op |-> "gpio_mode_set", args |-> run.args, ret |-> "void",
                     trace |-> run.trace, gpio |-> run.gpio,
                     exti |-> run.exti])
    /\ run' = Idle
    /\ UNCHANGED <<exti, calls>>

\* a handler calls gpio_mode_set and returns: the whole of lines 95 to 113,
\* wherever the call in thread mode is; the line it preempted is recorded
\* with both calls
gpio_mode_set_handler ==
    \E gpio_periph \in CfgPorts, m \in ModeArgs, pin \in IrqPinSels :
        /\ calls < MaxSteps
        /\ gpio' = [gpio EXCEPT ![gpio_periph] =
                      gpio_mode_regs(gpio[gpio_periph], Bits(m[1]), Bits(m[2]),
                                     Bits(pin))]
        /\ hist' = Push(Entry("gpio_mode_set", <<gpio_periph, m[1], m[2], pin>>,
                              "void", <<"handler", run.pc>>))
        /\ run' = IF run.pc = "idle" THEN run
                  ELSE [run EXCEPT !.trace = Append(@, run.pc)]
        /\ calls' = calls + 1
        /\ UNCHANGED exti

NextIrq ==
    \/ gpio_mode_set_95
    \/ gpio_mode_set_96
    \/ gpio_mode_set_112
    \/ gpio_mode_set_113
    \/ gpio_mode_set_handler

SpecIrq == Init /\ [][NextIrq]_vars

(* ------------------------------ claims -------------------------------- *)

\* the latest call was op
Did(op) == hist # <<>> /\ hist[1].op = op

\* the latest two calls were first, then second, with the same arguments
DidPair(first, second) ==
    /\ Len(hist) = 2
    /\ hist[2].op = first
    /\ hist[1].op = second
    /\ hist[1].args = hist[2].args

\* C1: after gpio_mode_set(port, mode, pupd, pin) the 2-bit CTL field of every
\* pin whose selector bit is set equals mode and that of every other pin is
\* as it was when the call began; the same for PUD with pull_up_down.
C1_ModeSetFields ==
    Did("gpio_mode_set") =>
        LET h == hist[1]
            p == h.args[1]
            pin == Bits(h.args[4])
        IN  \A i \in 0..15 :
              /\ Field(gpio[p].CTL, i, 2) =
                   IF i \in pin THEN Bits(h.args[2])
                                ELSE Field(h.gpio[p].CTL, i, 2)
              /\ Field(gpio[p].PUD, i, 2) =
                   IF i \in pin THEN Bits(h.args[3])
                                ELSE Field(h.gpio[p].PUD, i, 2)

\* gpio_mode_set(port, GPIO_MODE_AF, GPIO_PUPD_PULLDOWN, 0x0003) on a port whose
\* pins are all in analog mode
C1_Witness ==
    /\ Did("gpio_mode_set")
    /\ hist[1].args[2] = 2
    /\ hist[1].args[4] = 3
    /\ hist[1].gpio[hist[1].args[1]].CTL = Word32
    /\ gpio[hist[1].args[1]].CTL # hist[1].gpio[hist[1].args[1]].CTL

\* C2: after gpio_af_set(port, af, pin) a selected pin i in 0..7 has af in
\* field i of AFSEL0 and a selected pin i in 8..15 has af in field i-8 of
\* AFSEL1; the fields of the other pins are as they were; a selector with no
\* bit in 8..15 leaves AFSEL1 as it was and one with no bit in 0..7 AFSEL0.
C2_AfSetFields ==
    Did("gpio_af_set") =>
        LET h == hist[1]
            p == h.args[1]
            af == Bits(h.args[2])
            pin == Bits(h.args[3])
        IN  /\ \A i \in 0..7 :
                 Field(gpio[p].AFSEL0, i, 4) =
                   IF i \in pin THEN af ELSE Field(h.gpio[p].AFSEL0, i, 4)
            /\ \A i \in 8..15 :
                 Field(gpio[p].AFSEL1, i - 8, 4) =
                   IF i \in pin THEN af ELSE Field(h.gpio[p].AFSEL1, i - 8, 4)
            /\ (pin \cap (8..15) = {}) => gpio[p].AFSEL1 = h.gpio[p].AFSEL1
            /\ (pin \cap (0..7) = {}) => gpio[p].AFSEL0 = h.gpio[p].AFSEL0

\* gpio_af_set(port, GPIO_AF_5, GPIO_PIN_8 | GPIO_PIN_15) on a port whose
\* AFSEL0 and AFSEL1 hold other values
C2_Witness ==
    /\ Did("gpio_af_set")
    /\ hist[1].args[2] = 5
    /\ hist[1].args[3] = 33024
    /\ hist[1].gpio[hist[1].args[1]].AFSEL0 # {}
    /\ hist[1].gpio[hist[1].args[1]].AFSEL1 # {}
    /\ gpio[hist[1].args[1]].AFSEL1 # hist[1].gpio[hist[1].args[1]].AFSEL1

\* the enable (set) function of each single-bit toggle register, its disable
\* (reset) function and the EXTI register they write ("SCFG": GPIO_SCFG of
\* the port of the call)
TogglePairs ==
    { <<"exti_interrupt_enable", "exti_interrupt_disable", "INTEN">>,
      <<"exti_event_enable", "exti_event_disable", "EVEN">>,
      <<"exti_software_interrupt_enable", "exti_software_interrupt_disable",
        "SWIEV">>,
      <<"exti_security_enable", "exti_security_disable", "SECCFG">>,
      <<"exti_privilege_enable", "exti_privilege_disable", "PRIVCFG">>,
      <<"gpio_bit_set_sec_cfg", "gpio_bit_reset_sec_cfg", "SCFG">> }

\* the register of a toggle pair in the register file (g, e), for a call
\* with arguments args, and the selector of that call as a word
ToggleReg(t, g, e, args) == IF t[3] = "SCFG" THEN g[args[1]].SCFG ELSE e[t[3]]
ToggleSel(t, args) == IF t[3] = "SCFG" THEN Bits(args[2]) ELSE EXTI_(args[1])

\* C3 as stated: enable, then the matching disable with the same selector,
\* leaves the register equal to its value before the enable call.
C3_RoundTripRestores ==
    \A t \in TogglePairs :
        DidPair(t[1], t[2]) =>
            ToggleReg(t, gpio, exti, hist[1].args) =
                ToggleReg(t, hist[2].gpio, hist[2].exti, hist[2].args)

\* C3, amended: enable, then the matching disable with the same selector,
\* leaves the register equal to its value before the enable call with the
\* selected bits cleared; so it is restored exactly when the selected bits
\* were clear before the enable call.
C3_RoundTripClears ==
    \A t \in TogglePairs :
        DidPair(t[1], t[2]) =>
            LET before == ToggleReg(t, hist[2].gpio, hist[2].exti, hist[2].args)
                after == ToggleReg(t, gpio, exti, hist[1].args)
                sel == ToggleSel(t, hist[1].args)
            IN  /\ after = before \ sel
                /\ (after = before) <=> (before \cap sel = {})

\* exti_interrupt_enable(EXTI_0), exti_interrupt_disable(EXTI_0) from the
\* reset value of EXTI_INTEN: line 0 was disabled, other lines are enabled
C3_Witness ==
    /\ DidPair("exti_interrupt_enable", "exti_interrupt_disable")
    /\ hist[1].args = <<0>>
    /\ hist[2].exti.INTEN # {}
    /\ hist[1].exti.INTEN # hist[2].exti.INTEN
    /\ exti.INTEN = hist[2].exti.INTEN

PackOps == {"gpio_mode_set", "gpio_output_options_set", "gpio_af_set"}

\* the pin selector among the arguments of a call of a pack operation
PackSel(h) == IF h.op = "gpio_af_set" THEN h.args[3] ELSE h.args[4]

\* C4: gpio_mode_set, gpio_output_options_set and gpio_af_set called twice in
\* a row with the same arguments leave every register as the first call
\* left it.
C4_PackIdempotent ==
    \A op \in PackOps : DidPair(op, op) => gpio = hist[1].gpio

\* a pack operation with a selector that is not zero changed registers, and
\* was called again with the same arguments
C4_Witness ==
    /\ \E op \in PackOps : DidPair(op, op)
    /\ PackSel(hist[1]) # 0
    /\ hist[1].gpio # hist[2].gpio

\* C5: gpio_mode_set, gpio_output_options_set and gpio_af_set with pin
\* selector 0 leave CTL, PUD, OMODE, OSPD, AFSEL0 and AFSEL1 of the port as
\* they were.
C5_ZeroSelectorNoop ==
    \A op \in PackOps :
        (Did(op) /\ PackSel(hist[1]) = 0) =>
            \A r \in {"CTL", "PUD", "OMODE", "OSPD", "AFSEL0", "AFSEL1"} :
                gpio[hist[1].args[1]][r] = hist[1].gpio[hist[1].args[1]][r]

\* gpio_output_options_set(port, GPIO_OTYPE_PP, speed, 0) on a port with
\* open-drain pins
C5_Witness ==
    /\ Did("gpio_output_options_set")
    /\ PackSel(hist[1]) = 0
    /\ hist[1].args[2] = "GPIO_OTYPE_PP"
    /\ hist[1].gpio[hist[1].args[1]].OMODE # {}

FlagGets == {"exti_flag_get", "exti_interrupt_flag_get"}
FlagClears == {"exti_flag_clear", "exti_interrupt_flag_clear"}

\* C6: right after exti_flag_clear(line) or exti_interrupt_flag_clear(line),
\* exti_flag_get(line) and exti_interrupt_flag_get(line) return RESET.
C6_ClearThenGet ==
    /\ (hist # <<>> /\ hist[1].op \in FlagClears) =>
           exti_flag_get_ret(exti.PD, EXTI_(hist[1].args[1])) = "RESET"
    /\ (/\ Len(hist) = 2
        /\ hist[2].op \in FlagClears
        /\ hist[1].op \in FlagGets
        /\ hist[1].args = hist[2].args) => hist[1].ret = "RESET"

\* a line's flag was pending (an edge came) when it was cleared
C6_Witness ==
    /\ Len(hist) = 2
    /\ hist[2].op = "line_edge"
    /\ hist[1].op \in FlagClears
    /\ hist[1].args = hist[2].args
    /\ EXTI_(hist[1].args[1]) \subseteq hist[1].exti.PD

\* C7: gpio_pin_lock(port, pin) makes five accesses, all to LOCK of the port:
\* write 0x00010000 | pin, write pin (bit 16 clear), write 0x00010000 | pin,
\* read, read; the pin bits of the three writes are the same, and no other
\* register changes.
C7_LockSequence ==
    Did("gpio_pin_lock") =>
        LET h == hist[1]
            p == h.args[1]
            pin == Bits(h.args[2])
            t == h.trace
        IN  /\ Len(t) = 5
            /\ \A k \in 1..5 : t[k].port = p /\ t[k].reg = "LOCK"
            /\ [k \in 1..5 |-> t[k].rw] =
                   <<"write", "write", "write", "read", "read">>
            /\ t[1].val = pin \cup {16}
            /\ t[2].val = pin /\ 16 \notin t[2].val
            /\ t[3].val = pin \cup {16}
            /\ \A k \in 1..3 : t[k].val \cap (0..15) = pin
            /\ gpio = [h.gpio EXCEPT ![p].LOCK = pin \cup {16}]
            /\ exti = h.exti

\* gpio_pin_lock(port, GPIO_PIN_0 | GPIO_PIN_1)
C7_Witness ==
    /\ Did("gpio_pin_lock")
    /\ hist[1].args[2] = 3
    /\ gpio[hist[1].args[1]].LOCK = {0, 1, 16}

\* C8 as stated: exti_init with a mode and a trigger outside their
\* enumerations leaves INTEN, EVEN, RTEN and FTEN as they were.
C8_InitUnknownNoop ==
    (/\ Did("exti_init")
     /\ hist[1].args[2] = "EXTI_MODE_OTHER"
     /\ hist[1].args[3] = "EXTI_TRIG_OTHER") =>
        \A r \in {"INTEN", "EVEN", "RTEN", "FTEN"} : exti[r] = hist[1].exti[r]

\* C8, amended: exti_init with a mode and a trigger outside their
\* enumerations clears the line's bit in INTEN, EVEN, RTEN and FTEN and
\* changes nothing else; the four registers stay as they were exactly when
\* the line's bit was clear in all of them.
C8_InitUnknownResetsLine ==
    (/\ Did("exti_init")
     /\ hist[1].args[2] = "EXTI_MODE_OTHER"
     /\ hist[1].args[3] = "EXTI_TRIG_OTHER") =>
        LET h == hist[1]
            x == h.args[1]
            Four == {"INTEN", "EVEN", "RTEN", "FTEN"}
        IN  /\ \A r \in Four : exti[r] = h.exti[r] \ {x}
            /\ \A r \in ExtiRegs \ Four : exti[r] = h.exti[r]
            /\ gpio = h.gpio
            /\ (\A r \in Four : exti[r] = h.exti[r]) <=>
                   (\A r \in Four : x \notin h.exti[r])

\* exti_init(EXTI_18, <unknown>, <unknown>) with line 18 enabled in INTEN
C8_Witness ==
    /\ Did("exti_init")
    /\ hist[1].args = <<18, "EXTI_MODE_OTHER", "EXTI_TRIG_OTHER">>
    /\ 18 \in hist[1].exti.INTEN
    /\ 18 \notin exti.INTEN

\* C9: gpio_deinit with GPIOA, GPIOB or GPIOC calls rcu_periph_reset_enable
\* and then rcu_periph_reset_disable, both with the reset line of that port,
\* and nothing else; with any other port identifier it makes no call; it
\* writes no register.
C9_DeinitCalls ==
    Did("gpio_deinit") =>
        LET h == hist[1]
            p == h.args[1]
            line == [q \in {"GPIOA", "GPIOB", "GPIOC"} |->
                       IF q = "GPIOA" THEN "RCU_GPIOARST"
                       ELSE IF q = "GPIOB" THEN "RCU_GPIOBRST"
                       ELSE "RCU_GPIOCRST"]
        IN  /\ p \in {"GPIOA", "GPIOB", "GPIOC"} =>
                 h.trace = << <<"rcu_periph_reset_enable", line[p]>>,
                              <<"rcu_periph_reset_disable", line[p]>> >>
            /\ p \notin {"GPIOA", "GPIOB", "GPIOC"} => h.trace = <<>>
            /\ gpio = h.gpio
            /\ exti = h.exti

\* gpio_deinit with an unknown port identifier, after a call that configured
\* a port
C9_Witness ==
    /\ Did("gpio_deinit")
    /\ hist[1].args[1] = GPIO_UNKNOWN
    /\ Len(hist) = 2
    /\ hist[1].gpio # hist[2].gpio

\* C10: after exti_deinit every EXTI register holds its reset value: INTEN
\* 0x0F940000 and EVEN, RTEN, FTEN, SWIEV, PD, SECCFG, PRIVCFG, LOCK 0.
C10_DeinitResetsAll ==
    Did("exti_deinit") =>
        \A r \in ExtiRegs :
            exti[r] = IF r = "INTEN" THEN Bits(EXTI_INTEN_RESET_VAL)
                                     ELSE Bits(EXTI_REG_RESET_VAL)

\* C11: after exti_init(line, mode, trig) with mode and trig of their
\* enumerations, the line's bit is set in INTEN and clear in EVEN for
\* EXTI_INTERRUPT, and the other way round for EXTI_EVENT; its RTEN bit is set
\* iff trig is RISING or BOTH and its FTEN bit iff trig is FALLING or BOTH,
\* whatever the bits were; the bits of the other lines in the four registers
\* are as they were.
C11_InitValid ==
    (/\ Did("exti_init")
     /\ hist[1].args[2] \in {"EXTI_INTERRUPT", "EXTI_EVENT"}
     /\ hist[1].args[3] \in {"EXTI_TRIG_RISING", "EXTI_TRIG_FALLING",
                             "EXTI_TRIG_BOTH", "EXTI_TRIG_NONE"}) =>
        LET h == hist[1]
            x == h.args[1]
            mode == h.args[2]
            trig == h.args[3]
        IN  /\ (x \in exti.INTEN) <=> (mode = "EXTI_INTERRUPT")
            /\ (x \in exti.EVEN) <=> (mode = "EXTI_EVENT")
            /\ (x \in exti.RTEN) <=>
                   (trig \in {"EXTI_TRIG_RISING", "EXTI_TRIG_BOTH"})
            /\ (x \in exti.FTEN) <=>
                   (trig \in {"EXTI_TRIG_FALLING", "EXTI_TRIG_BOTH"})
            /\ \A r \in {"INTEN", "EVEN", "RTEN", "FTEN"} :
                   exti[r] \ {x} = h.exti[r] \ {x}

\* exti_init(EXTI_18, EXTI_EVENT, EXTI_TRIG_FALLING) on a line that was set up
\* for interrupts on the rising edge
C11_Witness ==
    /\ Did("exti_init")
    /\ hist[1].args = <<18, "EXTI_EVENT", "EXTI_TRIG_FALLING">>
    /\ 18 \in hist[1].exti.INTEN
    /\ 18 \in hist[1].exti.RTEN
    /\ 18 \notin hist[1].exti.FTEN

\* C13: after gpio_output_options_set(port, otype, speed, pin) with speed in
\* 0..3, the OMODE bit of every selected pin is set if otype is GPIO_OTYPE_OD
\* and clear for any other otype, and the OMODE bits of the unselected pins are
\* as before; the 2-bit OSPD field of every selected pin equals speed and the
\* field of every unselected pin is as before.
C13_OutputOptions ==
    (Did("gpio_output_options_set") /\ hist[1].args[3] \in 0..3) =>
        LET h == hist[1]
            p == h.args[1]
            otype == h.args[2]
            speed == Bits(h.args[3])
            pin == Bits(h.args[4])
            pre == h.gpio[p]
        IN  /\ \A b \in Word32 :
                   (b \in gpio[p].OMODE) <=>
                       IF b \in pin THEN otype = "GPIO_OTYPE_OD"
                                    ELSE b \in pre.OMODE
            /\ \A i \in 0..15 :
                   Field(gpio[p].OSPD, i, 2) =
                       IF i \in pin THEN speed ELSE Field(pre.OSPD, i, 2)

\* a call on pins 0 and 1 of a port whose pins were all open-drain with a
\* non-zero speed different from the one now requested
C13_Witness ==
    /\ Did("gpio_output_options_set")
    /\ hist[1].args[4] = 3
    /\ hist[1].args[3] \in 0..3
    /\ LET pre == hist[1].gpio[hist[1].args[1]]
       IN  /\ {0, 5} \subseteq pre.OMODE
           /\ Field(pre.OSPD, 0, 2) # {}
           /\ Field(pre.OSPD, 0, 2) # Bits(hist[1].args[3])
           /\ Field(pre.OSPD, 5, 2) # {}

\* the registers each configuring function stores to
OwnRegs ==
    [gpio_mode_set |-> {"CTL", "PUD"},
     gpio_output_options_set |-> {"OMODE", "OSPD"},
     gpio_af_set |-> {"AFSEL0", "AFSEL1"},
     gpio_bit_set_sec_cfg |-> {"SCFG"},
     gpio_bit_reset_sec_cfg |-> {"SCFG"}]

ReadOps ==
    {"gpio_input_bit_get", "gpio_output_bit_get", "gpio_sec_cfg_bit_get",
     "exti_flag_get", "exti_interrupt_flag_get"}

\* C14: a call of gpio_mode_set, gpio_output_options_set, gpio_af_set,
\* gpio_bit_set_sec_cfg or gpio_bit_reset_sec_cfg on a port changes no register
\* of another port, no register of the port other than its own (CTL and PUD;
\* OMODE and OSPD; AFSEL0 and AFSEL1; SCFG) and no EXTI register; a call of
\* gpio_input_bit_get, gpio_output_bit_get, gpio_sec_cfg_bit_get, exti_flag_get
\* or exti_interrupt_flag_get changes no register at all.
C14_RegisterIsolation ==
    /\ (hist # <<>> /\ hist[1].op \in DOMAIN OwnRegs) =>
           LET h == hist[1]
           IN  /\ \A q \in Ports, r \in GpioRegs :
                      (q # h.args[1] \/ r \notin OwnRegs[h.op]) =>
                          gpio[q][r] = h.gpio[q][r]
               /\ exti = h.exti
    /\ (hist # <<>> /\ hist[1].op \in ReadOps) =>
           /\ gpio = hist[1].gpio
           /\ exti = hist[1].exti

\* gpio_mode_set changed the pull-up/down fields of GPIOB after GPIOA was
\* configured
C14_Witness ==
    /\ Did("gpio_mode_set")
    /\ hist[1].args[1] = "GPIOB"
    /\ gpio["GPIOB"].PUD # hist[1].gpio["GPIOB"].PUD
    /\ gpio["GPIOB"].CTL # hist[1].gpio["GPIOB"].CTL
    /\ \E r \in GpioRegs : gpio["GPIOA"][r] # {}

\* the pins a recorded gpio_mode_set call selected
ModePins(h) == Bits(h.args[4]) \cap (0..15)

\* the pins of the call h hold the mode and the pull-up/down it asked for
HoldsMode(h) ==
    \A i \in ModePins(h) :
        /\ Field(gpio[h.args[1]].CTL, i, 2) = Bits(h.args[2])
        /\ Field(gpio[h.args[1]].PUD, i, 2) = Bits(h.args[3])

\* two recorded gpio_mode_set calls on one port with disjoint pin selectors
SamePortDisjoint(a, b) ==
    /\ a.op = "gpio_mode_set"
    /\ b.op = "gpio_mode_set"
    /\ a.args[1] = b.args[1]
    /\ ModePins(a) \cap ModePins(b) = {}

\* no call is in progress; the latest call ran in thread mode and was
\* preempted once, after it had read CTL and PUD and before it stored them,
\* by the call before it in the record, on the same port with a disjoint pin
\* selector
LostUpdateCase ==
    /\ run.pc = "idle"
    /\ Len(hist) = 2
    /\ hist[1].trace = <<"thread", "L112">>
    /\ hist[2].trace = <<"handler", "L112">>
    /\ SamePortDisjoint(hist[1], hist[2])

\* no call is in progress and neither of the two latest calls was preempted
\* or preempted another; they are on the same port with disjoint pin selectors
NotInterleavedCase ==
    /\ run.pc = "idle"
    /\ Len(hist) = 2
    /\ \A k \in 1..2 : hist[k].trace \in {<<"thread">>, <<"handler", "idle">>}
    /\ SamePortDisjoint(hist[1], hist[2])

\* C12 as stated: when a gpio_mode_set call is preempted between its reads and
\* its stores by a gpio_mode_set call on the same port with a disjoint pin
\* selector, none of the second call's pins holds the mode that call asked
\* for once the first call has finished; when the two calls do not
\* interleave, both pin sets hold what was asked for.
C12_LostUpdateAlways ==
    /\ LostUpdateCase =>
           \A i \in ModePins(hist[2]) :
               Field(gpio[hist[2].args[1]].CTL, i, 2) # Bits(hist[2].args[2])
    /\ NotInterleavedCase => (HoldsMode(hist[1]) /\ HoldsMode(hist[2]))

\* C12: when a gpio_mode_set call is preempted between its reads and its
\* stores by a gpio_mode_set call on the same port with a disjoint pin
\* selector, then once the first call has finished the CTL and PUD fields of
\* the second call's pins are what they were when the first call began, and
\* the first call's pins hold what it asked for; when the two calls do not
\* interleave, both pin sets hold what was asked for.
C12_LostUpdateReverts ==
    /\ LostUpdateCase =>
           /\ \A i \in ModePins(hist[2]) :
                  /\ Field(gpio[hist[2].args[1]].CTL, i, 2) =
                         Field(hist[1].gpio[hist[2].args[1]].CTL, i, 2)
                  /\ Field(gpio[hist[2].args[1]].PUD, i, 2) =
                         Field(hist[1].gpio[hist[2].args[1]].PUD, i, 2)
           /\ HoldsMode(hist[1])
    /\ NotInterleavedCase => (HoldsMode(hist[1]) /\ HoldsMode(hist[2]))

\* the preempting call asked for a mode that its pins did not have, and its
\* pins do not hold that mode after the preempted call has finished
C12_Witness ==
    /\ LostUpdateCase
    /\ ModePins(hist[2]) # {}
    /\ \A i \in ModePins(hist[2]) :
           /\ Field(hist[2].gpio[hist[2].args[1]].CTL, i, 2) # Bits(hist[2].args[2])
           /\ Field(gpio[hist[2].args[1]].CTL, i, 2) # Bits(hist[2].args[2])

====
